---------------------------- MODULE Spec2Model ----------------------------
(***************************************************************************)
(* A model of pyexeggutor's RunShellCommand (construction, run,           *)
(* check_status, dump) and of the formatters format_duration and          *)
(* format_bytes, translated from src/pyexeggutor/__init__.py.             *)
(*                                                                         *)
(* Python values are records [t, s, n, l]: t is the type tag, s the text  *)
(* of a str, n the value of an int, l the items of a list.  An attribute  *)
(* that has never been assigned is Unset.  A Python str is a TLA+ string, *)
(* except where its characters are inspected: there it is a sequence of   *)
(* one-character strings.                                                  *)
(***************************************************************************)
EXTENDS Integers, Sequences, FiniteSets, TLC

VARIABLES
    self,       \* the RunShellCommand instance: one field per attribute
    args,       \* the arguments the constructor was called with
    fs,         \* the filesystem: path -> content, for the paths that exist
    openFiles,  \* paths of the file objects that are open
    frame,      \* the locals stdout, stderr of the run() call in progress
    pc,         \* position of the calling thread: "idle" or a point in run()
    nspawn,     \* number of child processes started so far
    child,      \* the last child process: its sinks, what it wrote and returned,
                \* and what the profiler and the clock reported for it
    lastCall,   \* the last operation called and how it ended
    nruns,      \* number of run() calls made so far
    pure        \* the last call of a formatter: function, argument, result

vars == <<self, args, fs, openFiles, frame, pc, nspawn, child, lastCall, nruns, pure>>

-----------------------------------------------------------------------------
(* Bounds of the model *)

MaxRuns == 2
MaxFrags == 3
MaxSeconds == 130
MaxSmallBytes == 40

-----------------------------------------------------------------------------
(* Python values *)

PyNone == [t |-> "None", s |-> "", n |-> 0, l |-> <<>>]
PyStr(x) == [t |-> "str", s |-> x, n |-> 0, l |-> <<>>]
PyInt(x) == [t |-> "int", s |-> "", n |-> x, l |-> <<>>]
PyList(x) == [t |-> "list", s |-> "", n |-> 0, l |-> x]
PyObject(x) == [t |-> "object", s |-> "", n |-> x, l |-> <<>>]
\* a float with one decimal: n is the value in tenths
PyFloat(x) == [t |-> "float", s |-> "", n |-> x, l |-> <<>>]
\* the file object open(path, "w") returned in the run() call number x
PyFile(path, x) == [t |-> "file", s |-> path, n |-> x, l |-> <<>>]
Unset == [t |-> "unset", s |-> "", n |-> 0, l |-> <<>>]

IsStr(v) == v.t = "str"

\* bool(v) for the values above
Truthy(v) ==
    CASE v.t = "None" -> FALSE
      [] v.t = "str" -> v.s # ""
      [] v.t = "int" -> v.n # 0
      [] v.t = "list" -> v.l # <<>>
      [] OTHER -> TRUE

DigitChar(d) ==
    CASE d = 0 -> "0" [] d = 1 -> "1" [] d = 2 -> "2" [] d = 3 -> "3" [] d = 4 -> "4"
      [] d = 5 -> "5" [] d = 6 -> "6" [] d = 7 -> "7" [] d = 8 -> "8" [] d = 9 -> "9"

RECURSIVE NatChars(_)
NatChars(n) == IF n < 10 THEN <<DigitChar(n)>> ELSE NatChars(n \div 10) \o <<DigitChar(n % 10)>>

\* the characters of str(n) for an int n
IntChars(n) == IF n < 0 THEN <<"-">> \o NatChars(-n) ELSE NatChars(n)

RECURSIVE Cat(_)
Cat(chars) == IF chars = <<>> THEN "" ELSE Head(chars) \o Cat(Tail(chars))

\* str(v)
Str(v) ==
    CASE v.t = "None" -> "None"
      [] v.t = "str" -> v.s
      [] v.t = "int" -> Cat(IntChars(v.n))

\* " ".join(strs)
RECURSIVE JoinSpace(_)
JoinSpace(strs) ==
    IF strs = <<>> THEN ""
    ELSE IF Len(strs) = 1 THEN Head(strs)
    ELSE Head(strs) \o " " \o JoinSpace(Tail(strs))

\* "\n".join(strs)
RECURSIVE JoinNewline(_)
JoinNewline(strs) ==
    IF strs = <<>> THEN ""
    ELSE IF Len(strs) = 1 THEN Head(strs)
    ELSE Head(strs) \o "\n" \o JoinNewline(Tail(strs))

RECURSIVE SeqMax(_)
SeqMax(xs) ==
    IF Len(xs) = 1 THEN Head(xs)
    ELSE IF Head(xs) >= SeqMax(Tail(xs)) THEN Head(xs) ELSE SeqMax(Tail(xs))

-----------------------------------------------------------------------------
(* Filesystem *)

\* open(path, "w") and what is written before the close: the file holds text
WriteFile(files, path, text) ==
    [q \in (DOMAIN files) \cup {path} |-> IF q = path THEN text ELSE files[q]]

RemoveFile(files, path) == [q \in (DOMAIN files) \ {path} |-> files[q]]

\* os.stat(filepath).st_size
get_file_size(files, filepath) == Len(files[filepath])

minimum_filesize == 1

\* check_file(filepath, empty_ok, minimum_filesize) raises FileNotFoundError
check_file_raises_nosize(files, filepath, empty_ok) == filepath \notin DOMAIN files

check_file_raises(files, filepath, empty_ok) ==
    IF filepath \notin DOMAIN files THEN TRUE
    ELSE IF ~empty_ok THEN get_file_size(files, filepath) < minimum_filesize
    ELSE FALSE

\* the first path of the list on which check_file raises; 0 when none does
FirstFailing(files, paths) ==
    IF \E i \in 1..Len(paths) : check_file_raises(files, paths[i], FALSE)
    THEN CHOOSE i \in 1..Len(paths) :
            /\ check_file_raises(files, paths[i], FALSE)
            /\ \A j \in 1..(i - 1) : ~check_file_raises(files, paths[j], FALSE)
    ELSE 0

-----------------------------------------------------------------------------
(* RunShellCommand.__init__ *)

MapStr(frags) == [i \in 1..Len(frags) |-> Str(frags[i])]

NonEmpty(x) == x # ""

\* " ".join(list(filter(bool, map(str, command))))
command_line(command) ==
    LET frags == IF IsStr(command) THEN <<command>> ELSE command.l
    IN  JoinSpace(SelectSeq(MapStr(frags), NonEmpty))

RunShellCommand_init(command, name, shell_executable, validate_input_filepaths, validate_output_filepaths) ==
    [ command |-> command_line(command),
      name |-> name,
      shell_executable |-> shell_executable,
      validate_input_filepaths |->
          IF Truthy(validate_input_filepaths) THEN validate_input_filepaths.l ELSE <<>>,
      validate_output_filepaths |->
          IF Truthy(validate_input_filepaths) THEN validate_input_filepaths.l ELSE <<>>,
      executed |-> FALSE,
      process_ |-> Unset,
      stdout_ |-> Unset,
      stderr_ |-> Unset,
      returncode_ |-> Unset,
      memory_usage_ |-> Unset,
      duration_ |-> Unset,
      peak_memory_ |-> Unset,
      redirect_stdout |-> Unset,
      redirect_stderr |-> Unset ]

-----------------------------------------------------------------------------
(* The inputs of the model *)

FileA == "a.txt"
FileB == "b.txt"
OutLog == "out.log"
ErrLog == "err.log"
DumpDir == "logs"

CommandArgs == { PyList(<<PyStr("cat"), PyStr(""), PyStr("a.txt")>>) }

NameArgs == { PyNone, PyStr("job") }

ShellArgs == { "/bin/bash", "/no/such/sh" }

\* the shell executables that exist on the machine
InstalledShells == { "/bin/bash" }

InputPathArgs == { PyNone, PyList(<<>>), PyList(<<FileA>>), PyList(<<FileA, FileB>>) }

OutputPathArgs == { PyNone, PyList(<<FileB>>) }

InitialFilesystems ==
    { [q \in {} |-> ""],
      [q \in {FileA} |-> ""],
      [q \in {FileA} |-> "ACGT"],
      [q \in {FileA, FileB} |-> "ACGT"],
      [q \in {FileB} |-> "ACGT"] }

subprocess_PIPE == PyInt(-1)

NoFrame == [stdout |-> Unset, stderr |-> Unset]
NoChild == [out |-> "", err |-> "", rc |-> 0, stdout |-> Unset, stderr |-> Unset,
            mem |-> <<>>, dur |-> Unset]
NoCall == [op |-> "none", exc |-> "none", arg |-> "", code |-> 0]
NoPure == [fn |-> "none", arg |-> <<>>, ret |-> <<>>]

Init ==
    /\ args \in [ command : CommandArgs, name : NameArgs, shell_executable : ShellArgs,
                  validate_input_filepaths : InputPathArgs,
                  validate_output_filepaths : OutputPathArgs ]
    /\ self = RunShellCommand_init(args.command, args.name, args.shell_executable,
                                   args.validate_input_filepaths,
                                   args.validate_output_filepaths)
    /\ fs \in InitialFilesystems
    /\ openFiles = {}
    /\ frame = NoFrame
    /\ pc = "idle"
    /\ nspawn = 0
    /\ child = NoChild
    /\ lastCall = NoCall
    /\ nruns = 0
    /\ pure = NoPure

\* what a child process may do: the text it writes to its stdout and stderr and
\* the code it exits with
ChildOutcomes ==
    { [out |-> "hi\n", err |-> "", rc |-> 0],
      [out |-> "", err |-> "boom\n", rc |-> 1],
      [out |-> "partial\n", err |-> "killed\n", rc |-> -9] }

\* what a child process may do to the validation paths
FsEffects == { "nothing", "remove a", "truncate a", "write b" }

ApplyEffect(files, effect) ==
    CASE effect = "nothing" -> files
      [] effect = "remove a" -> RemoveFile(files, FileA)
      [] effect = "truncate a" -> IF FileA \in DOMAIN files THEN WriteFile(files, FileA, "") ELSE files
      [] effect = "write b" -> WriteFile(files, FileB, "TGCA")

\* what the profiler and the clock may report: memory samples, elapsed time
Profiles ==
    { [mem |-> <<PyFloat(372), PyFloat(415)>>, dur |-> PyFloat(12)],
      [mem |-> <<PyFloat(523)>>, dur |-> PyFloat(650)] }

RedirectArgs(path) == { subprocess_PIPE, PyStr(path) }

-----------------------------------------------------------------------------
(* RunShellCommand.run *)

HasFlushClose(v) == v.t = "file"

RunBegin_keeping_redirect(stdout, stderr) ==
    /\ pc = "idle"
    /\ nruns < MaxRuns
    /\ nruns' = nruns + 1
    /\ LET out == IF IsStr(stdout) THEN PyFile(stdout.s, nruns + 1) ELSE stdout
           err == IF IsStr(stderr) THEN PyFile(stderr.s, nruns + 1) ELSE stderr
           fs1 == IF IsStr(stdout) THEN WriteFile(fs, stdout.s, "") ELSE fs
           fs2 == IF IsStr(stderr) THEN WriteFile(fs1, stderr.s, "") ELSE fs1
       IN  /\ self' = [self EXCEPT
                         !.redirect_stdout = IF IsStr(stdout) THEN stdout
                                             ELSE IF @ = Unset THEN PyNone ELSE @,
                         !.redirect_stderr = IF IsStr(stderr) THEN stderr
                                             ELSE IF @ = Unset THEN PyNone ELSE @]
           /\ frame' = [stdout |-> out, stderr |-> err]
           /\ fs' = fs2
           /\ openFiles' = openFiles \cup { f \in {out, err} : f.t = "file" }
    /\ pc' = "validate"
    /\ lastCall' = [op |-> "run", exc |-> "pending", arg |-> "", code |-> 0]
    /\ UNCHANGED <<args, nspawn, child, pure>>

\* run(), the I/O block: the redirect paths are recorded and the sinks opened
RunBegin(stdout, stderr) ==
    /\ pc = "idle"
    /\ nruns < MaxRuns
    /\ nruns' = nruns + 1
    /\ LET out == IF IsStr(stdout) THEN PyFile(stdout.s, nruns + 1) ELSE stdout
           err == IF IsStr(stderr) THEN PyFile(stderr.s, nruns + 1) ELSE stderr
           fs1 == IF IsStr(stdout) THEN WriteFile(fs, stdout.s, "") ELSE fs
           fs2 == IF IsStr(stderr) THEN WriteFile(fs1, stderr.s, "") ELSE fs1
       IN  /\ self' = [self EXCEPT
                         !.redirect_stdout = IF IsStr(stdout) THEN stdout ELSE PyNone,
                         !.redirect_stderr = IF IsStr(stderr) THEN stderr ELSE PyNone]
           /\ frame' = [stdout |-> out, stderr |-> err]
           /\ fs' = fs2
           /\ openFiles' = openFiles \cup { f \in {out, err} : f.t = "file" }
    /\ pc' = "validate"
    /\ lastCall' = [op |-> "run", exc |-> "pending", arg |-> "", code |-> 0]
    /\ UNCHANGED <<args, nspawn, child, pure>>

\* run(), the validation loop over validate_input_filepaths
RunValidate ==
    /\ pc = "validate"
    /\ LET paths == self.validate_input_filepaths
           i == FirstFailing(fs, paths)
       IN  IF i # 0
           THEN /\ pc' = "idle"
                /\ frame' = NoFrame
                /\ lastCall' = [op |-> "run", exc |-> "FileNotFoundError",
                                arg |-> paths[i], code |-> 0]
           ELSE /\ pc' = "spawn"
                /\ UNCHANGED <<frame, lastCall>>
    /\ UNCHANGED <<self, args, fs, openFiles, nspawn, child, nruns, pure>>

\* execute_command: subprocess.Popen starts the child, or fails to launch it
RunSpawn ==
    /\ pc = "spawn"
    /\ IF self.shell_executable \in InstalledShells
       THEN /\ self' = [self EXCEPT !.process_ = PyObject(nspawn + 1)]
            /\ nspawn' = nspawn + 1
            /\ pc' = "communicate"
            /\ UNCHANGED <<frame, lastCall>>
       ELSE /\ pc' = "idle"
            /\ frame' = NoFrame
            /\ lastCall' = [op |-> "run", exc |-> "OSError",
                            arg |-> self.shell_executable, code |-> 0]
            /\ UNCHANGED <<self, nspawn>>
    /\ UNCHANGED <<args, fs, openFiles, child, nruns, pure>>

\* execute_command: communicate() until the child ends, flush, returncode
RunCommunicate(outcome, effect) ==
    /\ pc = "communicate"
    /\ child' = [out |-> outcome.out, err |-> outcome.err, rc |-> outcome.rc,
                 stdout |-> frame.stdout, stderr |-> frame.stderr,
                 mem |-> <<>>, dur |-> Unset]
    /\ LET fs1 == ApplyEffect(fs, effect)
           fs2 == IF frame.stdout.t = "file"
                  THEN WriteFile(fs1, frame.stdout.s, outcome.out) ELSE fs1
           fs3 == IF frame.stderr.t = "file"
                  THEN WriteFile(fs2, frame.stderr.s, outcome.err) ELSE fs2
       IN  fs' = fs3
    /\ self' = [self EXCEPT
                  !.stdout_ = IF frame.stdout = subprocess_PIPE
                              THEN PyStr(outcome.out) ELSE PyNone,
                  !.stderr_ = IF frame.stderr = subprocess_PIPE
                              THEN PyStr(outcome.err) ELSE PyNone,
                  !.returncode_ = PyInt(outcome.rc)]
    /\ pc' = "close"
    /\ UNCHANGED <<args, openFiles, frame, nspawn, lastCall, nruns, pure>>

\* run(): memory_usage_ and duration_ are assigned, the sinks flushed and closed
RunClose(profile) ==
    /\ pc = "close"
    /\ self' = [self EXCEPT !.memory_usage_ = PyList(profile.mem),
                            !.duration_ = profile.dur]
    /\ openFiles' = openFiles \ { f \in {frame.stdout, frame.stderr} : HasFlushClose(f) }
    /\ pc' = "return"
    /\ child' = [child EXCEPT !.mem = profile.mem, !.dur = profile.dur]
    /\ UNCHANGED <<args, fs, frame, nspawn, lastCall, nruns, pure>>

RunReturn_not_marking ==
    /\ pc = "return"
    /\ self' = [self EXCEPT
                  !.peak_memory_ = PyFloat(SeqMax([i \in 1..Len(self.memory_usage_.l) |->
                                                       self.memory_usage_.l[i].n]))]
    /\ pc' = "idle"
    /\ frame' = NoFrame
    /\ lastCall' = [op |-> "run", exc |-> "none", arg |-> "", code |-> 0]
    /\ UNCHANGED <<args, fs, openFiles, nspawn, child, nruns, pure>>

\* run(): peak_memory_, executed, return self
RunReturn ==
    /\ pc = "return"
    /\ self' = [self EXCEPT
                  !.peak_memory_ = PyFloat(SeqMax([i \in 1..Len(self.memory_usage_.l) |->
                                                       self.memory_usage_.l[i].n])),
                  !.executed = TRUE]
    /\ pc' = "idle"
    /\ frame' = NoFrame
    /\ lastCall' = [op |-> "run", exc |-> "none", arg |-> "", code |-> 0]
    /\ UNCHANGED <<args, fs, openFiles, nspawn, child, nruns, pure>>

-----------------------------------------------------------------------------
(* RunShellCommand.check_status and RunShellCommand.dump *)

\* the cmd of the CalledProcessError that check_status raises
FailureText(obj) ==
    JoinNewline(<< "Command Failed: " \o obj.command,
                   "return code: " \o Str(obj.returncode_),
                   "stderr:\n" \o Str(obj.stderr_) >>)

\* how check_status() ends on the instance obj with the filesystem files
check_status(obj, files) ==
    IF obj.returncode_ = Unset
    THEN [op |-> "check_status", exc |-> "AttributeError", arg |-> "returncode_", code |-> 0]
    ELSE IF obj.returncode_.n # 0
    THEN [op |-> "check_status", exc |-> "CalledProcessError",
          arg |-> FailureText(obj), code |-> obj.returncode_.n]
    ELSE IF FirstFailing(files, obj.validate_output_filepaths) # 0
    THEN [op |-> "check_status", exc |-> "FileNotFoundError",
          arg |-> obj.validate_output_filepaths[
                      FirstFailing(files, obj.validate_output_filepaths)],
          code |-> 0]
    ELSE [op |-> "check_status", exc |-> "none", arg |-> "", code |-> 0]

CheckStatus ==
    /\ pc = "idle"
    /\ lastCall' = check_status(self, fs)
    /\ UNCHANGED <<self, args, fs, openFiles, frame, pc, nspawn, child, nruns, pure>>

\* os.path.join(output_directory, f"{self.name}.<suffix>")
DumpPath(obj, output_directory, suffix) ==
    output_directory \o "/" \o Str(obj.name) \o "." \o suffix

\* print(value, file=f)
Printed(value) == Str(value) \o "\n"

Dump_keeping_text(output_directory) ==
    /\ pc = "idle"
    /\ self.stdout_ # Unset
    /\ self' = [self EXCEPT !.stdout_ = PyStr(Str(self.stdout_)),
                            !.stderr_ = PyStr(Str(self.stderr_))]
    /\ LET fs1 == WriteFile(fs, DumpPath(self, output_directory, "o"), Printed(self.stdout_))
           fs2 == WriteFile(fs1, DumpPath(self, output_directory, "e"), Printed(self.stderr_))
           fs3 == WriteFile(fs2, DumpPath(self, output_directory, "returncode"),
                            Printed(self.returncode_))
       IN  fs' = fs3
    /\ lastCall' = [op |-> "dump", exc |-> "none", arg |-> "", code |-> 0]
    /\ UNCHANGED <<args, openFiles, frame, pc, nspawn, child, nruns, pure>>

\* dump(): each file is opened for writing, then the attribute is read and
\* printed; reading an attribute that was never assigned raises AttributeError
\* and leaves the file just opened empty
Dump(output_directory) ==
    /\ pc = "idle"
    /\ IF self.stdout_ = Unset
       THEN /\ fs' = WriteFile(fs, DumpPath(self, output_directory, "o"), "")
            /\ lastCall' = [op |-> "dump", exc |-> "AttributeError",
                            arg |-> "stdout_", code |-> 0]
       ELSE /\ LET fs1 == WriteFile(fs, DumpPath(self, output_directory, "o"),
                                    Printed(self.stdout_))
                   fs2 == WriteFile(fs1, DumpPath(self, output_directory, "e"),
                                    Printed(self.stderr_))
                   fs3 == WriteFile(fs2, DumpPath(self, output_directory, "returncode"),
                                    Printed(self.returncode_))
               IN  fs' = fs3
            /\ lastCall' = [op |-> "dump", exc |-> "none", arg |-> "", code |-> 0]
    /\ UNCHANGED <<self, args, openFiles, frame, pc, nspawn, child, nruns, pure>>

-----------------------------------------------------------------------------
(* The specification of one RunShellCommand instance and its caller *)

Next ==
    \/ \E stdout \in RedirectArgs(OutLog), stderr \in RedirectArgs(ErrLog) :
           RunBegin(stdout, stderr)
    \/ RunValidate
    \/ RunSpawn
    \/ \E outcome \in ChildOutcomes, effect \in FsEffects : RunCommunicate(outcome, effect)
    \/ \E profile \in Profiles : RunClose(profile)
    \/ RunReturn
    \/ CheckStatus
    \/ Dump(DumpDir)

Spec == Init /\ [][Next]_vars

-----------------------------------------------------------------------------
(* Construction on its own: the caller builds instances from command arguments *)

Fragments == { PyStr(""), PyNone, PyStr("ls"), PyStr("-l"), PyStr("a.txt") }

RECURSIVE SeqsUpTo(_, _)
SeqsUpTo(S, n) ==
    IF n = 0 THEN { <<>> }
    ELSE SeqsUpTo(S, n - 1) \cup { Append(q, x) : q \in SeqsUpTo(S, n - 1), x \in S }

ConstructCommands ==
    { PyList(q) : q \in SeqsUpTo(Fragments, MaxFrags) } \cup { PyStr(""), PyStr("ls -l a.txt") }

DefaultArgs ==
    [ command |-> PyStr("true"), name |-> PyNone, shell_executable |-> "/bin/bash",
      validate_input_filepaths |-> PyNone, validate_output_filepaths |-> PyNone ]

QuietInit ==
    /\ args = DefaultArgs
    /\ self = RunShellCommand_init(args.command, args.name, args.shell_executable,
                                   args.validate_input_filepaths,
                                   args.validate_output_filepaths)
    /\ fs = [q \in {} |-> ""]
    /\ openFiles = {}
    /\ frame = NoFrame
    /\ pc = "idle"
    /\ nspawn = 0
    /\ child = NoChild
    /\ lastCall = NoCall
    /\ nruns = 0
    /\ pure = NoPure

\* RunShellCommand(command): a new instance replaces the one at hand
Construct(command) ==
    /\ pc = "idle"
    /\ args' = [DefaultArgs EXCEPT !.command = command]
    /\ self' = RunShellCommand_init(command, DefaultArgs.name, DefaultArgs.shell_executable,
                                    DefaultArgs.validate_input_filepaths,
                                    DefaultArgs.validate_output_filepaths)
    /\ lastCall' = [op |-> "__init__", exc |-> "none", arg |-> "", code |-> 0]
    /\ UNCHANGED <<fs, openFiles, frame, pc, nspawn, child, nruns, pure>>

ConstructNext == \E command \in ConstructCommands : Construct(command)

SpecConstruct == QuietInit /\ [][ConstructNext]_vars

-----------------------------------------------------------------------------
(* Formatting: format_duration and format_bytes.  The strings they return  *)
(* are sequences of one-character strings.                                  *)

\* int(v): a float is truncated towards zero
PyIntOf(v) ==
    IF v.t = "float"
    THEN (IF v.n >= 0 THEN v.n \div 10 ELSE -((-v.n) \div 10))
    ELSE v.n

RECURSIVE ZeroFill(_, _)
ZeroFill(chars, width) == IF Len(chars) >= width THEN chars ELSE ZeroFill(<<"0">> \o chars, width)

\* f"{n:02}"
Pad2(n) == IF n < 0 THEN <<"-">> \o ZeroFill(NatChars(-n), 1) ELSE ZeroFill(NatChars(n), 2)

format_duration_rounding(duration) ==
    LET total == (IF duration.t = "float" THEN (duration.n + 5) \div 10 ELSE duration.n)
        hours == total \div 3600
        remainder == total % 3600
        minutes == remainder \div 60
        seconds == remainder % 60
    IN  Pad2(hours) \o <<":">> \o Pad2(minutes) \o <<":">> \o Pad2(seconds)

format_duration(duration) ==
    LET hours == PyIntOf(duration) \div 3600
        remainder == PyIntOf(duration) % 3600
        minutes == remainder \div 60
        seconds == remainder % 60
    IN  Pad2(hours) \o <<":">> \o Pad2(minutes) \o <<":">> \o Pad2(seconds)

\* A byte count can exceed the machine integers of the checker, so it is kept
\* in two limbs: the number hi * 2^20 + lo with 0 <= lo < 2^20.
Limb == 2^20

Big(hi, lo) == [hi |-> hi, lo |-> lo]

\* m * 2^p for a small m
BigShift(m, p) ==
    IF p >= 20 THEN Big(m * 2^(p - 20), 0)
    ELSE Big(m \div 2^(20 - p), (m % 2^(20 - p)) * 2^p)

BigLess(x, y) == x.hi < y.hi \/ (x.hi = y.hi /\ x.lo < y.lo)

BigLeq(x, y) == x = y \/ BigLess(x, y)

\* 100 * x
BigTimes100(x) == Big(100 * x.hi + (100 * x.lo) \div Limb, (100 * x.lo) % Limb)

\* x * m for a small m
BigScale(x, m) == Big(x.hi * m + (x.lo * m) \div Limb, (x.lo * m) % Limb)

RECURSIVE Log2(_)
Log2(n) == IF n <= 1 THEN 0 ELSE 1 + Log2(n \div 2)

\* the exponent of a power of two
BigLog2(x) == IF x.hi = 0 THEN Log2(x.lo) ELSE 20 + Log2(x.hi)

\* f"{x / size:.2f}" for size a power of two: the quotient in hundredths, rounded
\* half to even as the float formatting rounds (the quotient is exact in a double)
Hundredths(x, size) ==
    LET e == BigLog2(size)
        n == BigTimes100(x)
        q == IF e >= 20 THEN n.hi \div 2^(e - 20) ELSE n.hi * 2^(20 - e) + n.lo \div 2^e
        r == IF e >= 20 THEN Big(n.hi % 2^(e - 20), n.lo) ELSE Big(0, n.lo % 2^e)
        half == IF e >= 1 THEN BigShift(1, e - 1) ELSE Big(1, 0)
    IN  IF BigLess(half, r) THEN q + 1
        ELSE IF r = half THEN q + (q % 2)
        ELSE q

\* format_with_unit(B / size, unit_name) with return_units=True
format_with_unit(B, size, unit_name) ==
    LET h == Hundredths(B, size)
    IN  NatChars(h \div 100) \o <<".">> \o ZeroFill(NatChars(h % 100), 2) \o <<" ">> \o unit_name

KB == 1024
MB == BigScale(Big(0, KB), KB)
GB == BigScale(MB, KB)
TB == BigScale(GB, KB)

UnitError == <<"V", "a", "l", "u", "e", "E", "r", "r", "o", "r">>

format_bytes_inclusive(B, unit) ==
    IF unit # "auto"
    THEN CASE unit = "b" -> format_with_unit(B, Big(0, 1), <<"B">>)
           [] unit = "kb" -> format_with_unit(B, Big(0, KB), <<"K", "B">>)
           [] unit = "mb" -> format_with_unit(B, MB, <<"M", "B">>)
           [] unit = "gb" -> format_with_unit(B, GB, <<"G", "B">>)
           [] unit = "tb" -> format_with_unit(B, TB, <<"T", "B">>)
           [] OTHER -> UnitError
    ELSE IF BigLeq(B, Big(0, KB)) THEN format_with_unit(B, Big(0, 1), <<"B">>)
    ELSE IF BigLeq(B, MB) THEN format_with_unit(B, Big(0, KB), <<"K", "B">>)
    ELSE IF BigLeq(B, GB) THEN format_with_unit(B, MB, <<"M", "B">>)
    ELSE IF BigLeq(B, TB) THEN format_with_unit(B, GB, <<"G", "B">>)
    ELSE format_with_unit(B, TB, <<"T", "B">>)

\* format_bytes(B, unit), unit already lower-cased, return_units=True; an
\* unknown unit raises ValueError
format_bytes(B, unit) ==
    IF unit # "auto"
    THEN CASE unit = "b" -> format_with_unit(B, Big(0, 1), <<"B">>)
           [] unit = "kb" -> format_with_unit(B, Big(0, KB), <<"K", "B">>)
           [] unit = "mb" -> format_with_unit(B, MB, <<"M", "B">>)
           [] unit = "gb" -> format_with_unit(B, GB, <<"G", "B">>)
           [] unit = "tb" -> format_with_unit(B, TB, <<"T", "B">>)
           [] OTHER -> UnitError
    ELSE IF BigLess(B, Big(0, KB)) THEN format_with_unit(B, Big(0, 1), <<"B">>)
    ELSE IF BigLeq(Big(0, KB), B) /\ BigLess(B, MB)
         THEN format_with_unit(B, Big(0, KB), <<"K", "B">>)
    ELSE IF BigLeq(MB, B) /\ BigLess(B, GB) THEN format_with_unit(B, MB, <<"M", "B">>)
    ELSE IF BigLeq(GB, B) /\ BigLess(B, TB) THEN format_with_unit(B, GB, <<"G", "B">>)
    ELSE format_with_unit(B, TB, <<"T", "B">>)

\* the durations formatted: whole seconds with a fraction in tenths
DurationSeconds ==
    (0..MaxSeconds) \cup { 3599, 3600, 3601, 3661, 86399, 86400, 359999, 360000, 360001 }

DurationArgs ==
    { PyFloat(10 * w + f) : w \in DurationSeconds, f \in {0, 5, 9} }
        \cup { PyInt(w) : w \in DurationSeconds }

\* the byte counts formatted
ByteArgs ==
    { Big(0, lo) : lo \in 0..MaxSmallBytes }
        \cup { Big(hi, lo) :
                 hi \in { 0, 1, 2, 1023, 1024, 1025, 1536, 1048575, 1048576, 1048577, 5242880 },
                 lo \in { 0, 1, 1023, 1024, 1025, 1088, 1152, 1408, 1536, 524288, 1048575 } }

UnitArgs == { "auto", "b", "kb", "mb", "gb", "tb", "pb" }

CallFormatDuration(duration) ==
    /\ pure' = [fn |-> "format_duration", arg |-> <<duration>>, ret |-> format_duration(duration)]
    /\ UNCHANGED <<self, args, fs, openFiles, frame, pc, nspawn, child, lastCall, nruns>>

\* an explicit unit is asked for the byte counts below 2^20 only
CallFormatBytes(B, unit) ==
    /\ unit # "auto" => B.hi = 0
    /\ pure' = [fn |-> "format_bytes", arg |-> <<B, unit>>, ret |-> format_bytes(B, unit)]
    /\ UNCHANGED <<self, args, fs, openFiles, frame, pc, nspawn, child, lastCall, nruns>>

FormatNext ==
    \/ \E duration \in DurationArgs : CallFormatDuration(duration)
    \/ \E B \in ByteArgs, unit \in UnitArgs : CallFormatBytes(B, unit)

SpecFormat == QuietInit /\ [][FormatNext]_vars

-----------------------------------------------------------------------------
(* Reading the characters of a formatted string back *)

DigitChars == { "0", "1", "2", "3", "4", "5", "6", "7", "8", "9" }

IsDigits(chars) == chars # <<>> /\ \A i \in 1..Len(chars) : chars[i] \in DigitChars

DigitValue(c) == CHOOSE d \in 0..9 : DigitChar(d) = c

RECURSIVE ParseNat(_)
ParseNat(chars) ==
    IF Len(chars) = 1 THEN DigitValue(chars[1])
    ELSE 10 * ParseNat(SubSeq(chars, 1, Len(chars) - 1)) + DigitValue(chars[Len(chars)])

RECURSIVE Split(_, _)
Split(chars, sep) ==
    IF \E i \in 1..Len(chars) : chars[i] = sep
    THEN LET i == CHOOSE k \in 1..Len(chars) :
                      chars[k] = sep /\ \A j \in 1..(k - 1) : chars[j] # sep
         IN  <<SubSeq(chars, 1, i - 1)>> \o Split(SubSeq(chars, i + 1, Len(chars)), sep)
    ELSE <<chars>>

\* a decimal numeral without superfluous leading zeros, at least width digits long
IsNumeral(chars, width) ==
    /\ IsDigits(chars)
    /\ Len(chars) >= width
    /\ Len(chars) > width => chars[1] # "0"

-----------------------------------------------------------------------------
(* The claims *)

\* a path that fails validation: missing, or smaller than one byte
Invalid(files, path) == path \notin DOMAIN files \/ Len(files[path]) < 1

\* the paths of a constructor argument that is None or a list
PathsOf(arg) == IF arg.t = "list" THEN { arg.l[i] : i \in 1..Len(arg.l) } ELSE {}

\* C1: after a completed run(), check_status() raises the command-failed error
\* (with the command text, the return code and the captured stderr) when the
\* return code is non-zero, and does not raise when the return code is 0 and the
\* constructor was given no output-validation paths, whatever the input-validation
\* paths and whatever the command did to the filesystem.
C1_CheckStatusByReturnCode ==
    (lastCall.op = "check_status" /\ self.executed) =>
        /\ self.returncode_.n # 0 =>
              /\ lastCall.exc = "CalledProcessError"
              /\ lastCall.code = self.returncode_.n
              /\ lastCall.arg = "Command Failed: " \o self.command
                                  \o "\nreturn code: " \o Str(self.returncode_)
                                  \o "\nstderr:\n" \o Str(self.stderr_)
        /\ (self.returncode_.n = 0 /\ PathsOf(args.validate_output_filepaths) = {}) =>
              lastCall.exc = "none"

\* C2: when the output-validation paths given to the constructor include a path
\* that is missing or empty after the run, check_status() raises FileNotFoundError
\* although the return code is 0, for every choice of input-validation paths.
C2_MissingOutputRaises ==
    ( /\ lastCall.op = "check_status"
      /\ self.executed
      /\ self.returncode_.n = 0
      /\ \E path \in PathsOf(args.validate_output_filepaths) : Invalid(fs, path) )
        => lastCall.exc = "FileNotFoundError"

\* C3: when an input-validation path is missing or smaller than one byte, run()
\* raises FileNotFoundError for such a path before any child process is spawned:
\* the failing call starts no child and leaves executed as it was; a child is
\* spawned only after every input path has passed validation, and executed is
\* set only at the end of a call that went through the spawn.
C3_ValidationBeforeSpawn ==
    [][ LET paths == { self.validate_input_filepaths[i] :
                          i \in 1..Len(self.validate_input_filepaths) }
        IN  /\ (pc = "validate" /\ \E path \in paths : Invalid(fs, path)) =>
                  /\ pc' = "idle"
                  /\ lastCall'.op = "run"
                  /\ lastCall'.exc = "FileNotFoundError"
                  /\ lastCall'.arg \in { path \in paths : Invalid(fs, path) }
                  /\ nspawn' = nspawn
                  /\ self'.process_ = self.process_
                  /\ self'.executed = self.executed
            /\ (pc = "idle" /\ pc' # "idle") => pc' = "validate"
            /\ nspawn' # nspawn =>
                  /\ pc = "spawn"
                  /\ \A path \in paths : ~Invalid(fs, path)
            /\ pc' = "spawn" => pc = "validate"
            /\ self'.executed # self.executed => (pc = "return" /\ self'.process_.n = nspawn)
      ]_vars

\* a run() call raised on an empty input file: no child was started
C3_Witness ==
    /\ pc = "idle"
    /\ lastCall = [op |-> "run", exc |-> "FileNotFoundError", arg |-> FileA, code |-> 0]
    /\ FileA \in DOMAIN fs
    /\ nspawn = 0
    /\ ~self.executed
    /\ self.process_ = Unset

\* the command line the claim describes: None and "" dropped, the rest joined
ClaimedCommand(command) ==
    LET frags == IF IsStr(command) THEN <<command>> ELSE command.l
        Kept(f) == ~(f = PyNone \/ f = PyStr(""))
        kept == SelectSeq(frags, Kept)
    IN  JoinSpace([i \in 1..Len(kept) |-> kept[i].s])

\* C4: the command line the constructor builds is the given fragments in their
\* order, joined by single spaces after every falsy fragment (the empty string
\* and None) is dropped; a single string is a one-fragment sequence.
C4_CommandDropsFalsy == self.command = ClaimedCommand(args.command)

PostExecutionFields(obj) ==
    { obj.stdout_, obj.stderr_, obj.returncode_, obj.memory_usage_, obj.peak_memory_,
      obj.duration_ }

RedirectFields(obj) == { obj.redirect_stdout, obj.redirect_stderr }

C6_DumpWritesThreeFiles ==
    [][ (pc = "idle" /\ lastCall'.op = "dump" /\ self.executed) =>
          LET o == DumpDir \o "/" \o Str(self.name) \o ".o"
              e == DumpDir \o "/" \o Str(self.name) \o ".e"
              r == DumpDir \o "/" \o Str(self.name) \o ".returncode"
          IN  /\ lastCall'.exc = "none"
              /\ DOMAIN fs' = DOMAIN fs \cup {o, e, r}
              /\ \A q \in DOMAIN fs \ {o, e, r} : fs'[q] = fs[q]
              /\ fs'[o] = child.out \o "\n"
              /\ fs'[e] = child.err \o "\n"
              /\ fs'[r] = Cat(IntChars(child.rc)) \o "\n"
      ]_vars

\* C7: check_status() and dump() leave the instance as it was, whether they
\* return or raise: the instance changes only in the steps of a run() call.
C7_ObserversReadOnly ==
    [][ /\ (pc = "idle" /\ lastCall'.op \in { "check_status", "dump" }) => self' = self
        /\ self' # self => (pc # "idle" \/ pc' # "idle")
      ]_vars

\* dump() has written its files and check_status() has raised on a failed command
C7_Witness ==
    /\ pc = "idle"
    /\ self.executed
    /\ lastCall.op = "check_status"
    /\ lastCall.exc = "CalledProcessError"
    /\ DumpPath(self, DumpDir, "returncode") \in DOMAIN fs
    /\ fs[DumpPath(self, DumpDir, "returncode")] = "1\n"

\* C8: for a non-negative duration d, format_duration(d) is H:M:S with each
\* field a decimal numeral zero-padded to at least two digits, 0 <= M < 60,
\* 0 <= S < 60 and 3600*H + 60*M + S = floor(d); 65 gives "00:01:05" and 3661
\* gives "01:01:01".
C8_FormatDuration ==
    pure.fn = "format_duration" =>
        LET d == pure.arg[1]
            fields == Split(pure.ret, ":")
        IN  /\ Len(fields) = 3
            /\ \A i \in 1..3 : IsNumeral(fields[i], 2)
            /\ LET H == ParseNat(fields[1])
                   M == ParseNat(fields[2])
                   S == ParseNat(fields[3])
                   whole == 3600 * H + 60 * M + S
               IN  /\ M < 60
                   /\ S < 60
                   /\ d.t = "int" => whole = d.n
                   /\ d.t = "float" => (10 * whole <= d.n /\ d.n < 10 * whole + 10)
            /\ d \in { PyInt(65), PyFloat(650) } =>
                  pure.ret = <<"0", "0", ":", "0", "1", ":", "0", "5">>
            /\ d \in { PyInt(3661), PyFloat(36610) } =>
                  pure.ret = <<"0", "1", ":", "0", "1", ":", "0", "1">>

\* 100 hours and 1.9 seconds are formatted with a three-digit hour field
C8_Witness ==
    /\ pure.fn = "format_duration"
    /\ pure.arg = << PyFloat(3600019) >>
    /\ pure.ret = <<"1", "0", "0", ":", "0", "0", ":", "0", "1">>

\* the unit the claim assigns to a byte count: its name and the exponent of its size
ClaimedUnit(B) ==
    IF BigLess(B, Big(0, 1024)) THEN [name |-> <<"B">>, e |-> 0]
    ELSE IF BigLess(B, Big(1, 0)) THEN [name |-> <<"K", "B">>, e |-> 10]
    ELSE IF BigLess(B, Big(1024, 0)) THEN [name |-> <<"M", "B">>, e |-> 20]
    ELSE IF BigLess(B, Big(1048576, 0)) THEN [name |-> <<"G", "B">>, e |-> 30]
    ELSE [name |-> <<"T", "B">>, e |-> 40]

\* C9: in auto mode format_bytes(B) picks the unit by 1024-based ranges (B below
\* 1024, KB below 1024^2, MB below 1024^3, GB below 1024^4, TB from there on) and
\* returns B divided by the unit's size as a numeral with exactly two decimals (the
\* nearest hundredth), a space and the unit name; 0 gives "0.00 B", 1536 gives
\* "1.50 KB" and 1024^3 gives "1.00 GB".
C9_FormatBytesAuto ==
    (pure.fn = "format_bytes" /\ pure.arg[2] = "auto") =>
        LET B == pure.arg[1]
            u == ClaimedUnit(B)
            parts == Split(pure.ret, " ")
        IN  /\ Len(parts) = 2
            /\ parts[2] = u.name
            /\ LET num == Split(parts[1], ".")
               IN  /\ Len(num) = 2
                   /\ IsNumeral(num[1], 1)
                   /\ IsDigits(num[2])
                   /\ Len(num[2]) = 2
                   /\ LET h == 100 * ParseNat(num[1]) + ParseNat(num[2])
                      IN  IF u.e = 0
                          THEN BigTimes100(B) = Big(0, h)
                          ELSE /\ BigLeq(BigShift(2 * h - 1, u.e - 1), BigTimes100(B))
                               /\ BigLeq(BigTimes100(B), BigShift(2 * h + 1, u.e - 1))
            /\ B = Big(0, 0) => pure.ret = <<"0", ".", "0", "0", " ", "B">>
            /\ B = Big(0, 1536) => pure.ret = <<"1", ".", "5", "0", " ", "K", "B">>
            /\ B = Big(1024, 0) => pure.ret = <<"1", ".", "0", "0", " ", "G", "B">>

\* 5 * 1024^4 + 1024^2 / 2 bytes are formatted in TB, to the nearest hundredth
C9_Witness ==
    /\ pure.fn = "format_bytes"
    /\ pure.arg = << Big(5242880, 524288), "auto" >>
    /\ pure.ret = <<"5", ".", "0", "0", " ", "T", "B">>

\* C10: every file that run() opened for a redirect path is closed when the call
\* ends, by returning or by raising, and before executed is set.
C10_SinksClosed == pc \in { "idle", "return" } => openFiles = {}

\* the post-execution fields a single completed run() leaves on a fresh instance,
\* given the sinks the child was started with, what it wrote and returned, and
\* what the profiler and the clock reported
AfterOneRun(c) ==
    [ stdout_ |-> IF c.stdout.t = "file" THEN PyNone ELSE PyStr(c.out),
      stderr_ |-> IF c.stderr.t = "file" THEN PyNone ELSE PyStr(c.err),
      returncode_ |-> PyInt(c.rc),
      memory_usage_ |-> PyList(c.mem),
      peak_memory_ |-> PyFloat(CHOOSE m \in { c.mem[i].n : i \in 1..Len(c.mem) } :
                                   \A i \in 1..Len(c.mem) : c.mem[i].n <= m),
      duration_ |-> c.dur,
      redirect_stdout |-> IF c.stdout.t = "file" THEN PyStr(c.stdout.s) ELSE PyNone,
      redirect_stderr |-> IF c.stderr.t = "file" THEN PyStr(c.stderr.s) ELSE PyNone ]

\* C11: after two completed run() calls on the same instance every post-execution
\* field (captured stdout and stderr, return code, memory samples and peak memory,
\* duration, stdout and stderr redirect paths) has the value the second run alone
\* would give it, nothing of the first run survives, and executed stays true.
C11_RerunOverwrites ==
    (pc = "idle" /\ lastCall.op = "run" /\ lastCall.exc = "none" /\ nspawn >= 2) =>
        /\ self.executed
        /\ \A field \in DOMAIN AfterOneRun(child) : self[field] = AfterOneRun(child)[field]

\* the first run redirected both streams and was killed, the second captured in
\* memory and succeeded: the redirect paths are cleared and the captures are the
\* second run's, while the first run's files are still on disk
C11_Witness ==
    /\ pc = "idle"
    /\ lastCall = [op |-> "run", exc |-> "none", arg |-> "", code |-> 0]
    /\ nspawn = 2
    /\ OutLog \in DOMAIN fs
    /\ fs[OutLog] = "partial\n"
    /\ ErrLog \in DOMAIN fs
    /\ fs[ErrLog] = "killed\n"
    /\ self.redirect_stdout = PyNone
    /\ self.redirect_stderr = PyNone
    /\ self.stdout_ = PyStr("hi\n")
    /\ self.stderr_ = PyStr("")
    /\ self.returncode_ = PyInt(0)
    /\ self.duration_ = PyFloat(12)
    /\ self.executed

=============================================================================
